---- MODULE Spec2Model ----
(***************************************************************************)
(* yatube: the views of posts/views.py over the tables of posts/models.py. *)
(* A request is one atomic step: the view reads request.user and the URL   *)
(* arguments, reads and writes the tables, and answers with a response.    *)
(* `last` keeps the request the last step served and its response; a step *)
(* that serves no request (the clock, cache.clear()) leaves none there.    *)
(***************************************************************************)
EXTENDS Bags, FiniteSets, Integers, Sequences, TLC

VARIABLES
    users,        \* usernames of the rows of the User table
    follow,       \* Follow table: a bag of <<user, author>> rows
    posts,        \* Post table: a set of rows
    comments,     \* Comment table: a set of rows
    post_seq,     \* last primary key the Post table gave out
    comment_seq,  \* last primary key the Comment table gave out
    clock,        \* number of rows saved so far: auto_now_add stamps each save
                  \* with the wall clock, later for every later save
    now,          \* wall clock in seconds, as the page cache reads it
    cache,        \* page cache: request URL -> entry
    last,         \* the request the last step served, and its response
    threads       \* worker thread -> the request it is serving step by step

vars == <<users, follow, posts, comments, post_seq, comment_seq, clock, now, cache, last,
          threads>>
store == <<users, follow, posts, comments, post_seq, comment_seq, clock>>

----------------------------------------------------------------------------
(* Bounds of the exploration *)

BasePosts == 10       \* posts already published when a feed run starts
MaxNewPosts == 2      \* posts a feed run publishes
MaxPosts == 1         \* posts a content run publishes
MaxComments == 1      \* comments a content run publishes
MaxCachePosts == 2    \* posts a cache run publishes
MaxTime == 40         \* last second a cache run reaches
MaxDelRows == 1       \* posts and comments a deletion run publishes
MaxWorkers == 3       \* worker threads that serve requests side by side

(* Program constants *)

PAGE_SIZE == 10       \* Paginator(posts, 10)
CACHE_TTL == 20       \* cache_page(20, ...)

----------------------------------------------------------------------------
(* Values *)

Names == {"u1", "u2", "u3"}           \* usernames a URL may carry
AnonymousUser == "AnonymousUser"      \* request.user of a client not logged in
Group == {"g1"}                       \* Group rows, by slug (and by pk in forms)
Slugs == {"g1", "gx"}                 \* slugs a URL may carry
NoGroup == ""
NoImage == ""
NoFile == "none"
GoodImage == "image.png"
BadFile == "test.txt"
Files == {NoFile, GoodImage, BadFile}

(* A URL of posts.urls, by route name and arguments. *)
URL(name, username, post_id) ==
    [name |-> name, username |-> username, post_id |-> post_id]
NoURL == URL("", "", 0)

(* request.POST: the fields sent and their values. *)
QueryDict(fields, text, group, author) ==
    [fields |-> fields, text |-> text, group |-> group, author |-> author]
EmptyQueryDict == QueryDict({}, <<>>, "", "")

(* The path a request asks for, as login_required hands it on as `next`. *)
PathOf(req) == URL(req.view, req.username, req.post_id)

Request(view, method, user, username, post_id, slug, page, data, files) ==
    [view |-> view, method |-> method, user |-> user, username |-> username,
     post_id |-> post_id, slug |-> slug, page |-> page,
     \* Django fills request.POST and request.FILES for POST requests only
     data |-> IF method = "POST" THEN data ELSE EmptyQueryDict,
     files |-> IF method = "POST" THEN files ELSE NoFile]

Response(status, template, location, next, errors, bound, items) ==
    [status |-> status, template |-> template, location |-> location,
     next |-> next, errors |-> errors, bound |-> bound, items |-> items]

render(template, errors, bound, items) ==
    Response(200, template, NoURL, NoURL, errors, bound, items)

redirect(location) ==
    Response(302, "", location, NoURL, {}, FALSE, <<>>)

Http404 ==
    Response(404, "misc/404.html", NoURL, NoURL, {}, FALSE, <<>>)

HttpResponseNotAllowed ==
    Response(405, "", NoURL, NoURL, {}, FALSE, <<>>)

server_error ==
    Response(500, "misc/500.html", NoURL, NoURL, {}, FALSE, <<>>)

redirect_to_login(req) ==
    Response(302, "", URL("login", "", 0), PathOf(req), {}, FALSE, <<>>)

----------------------------------------------------------------------------
(* Decorators *)

EveryoneAuthenticated(user) == TRUE

(* request.user.is_authenticated *)
is_authenticated(user) == user # AnonymousUser

login_required(req) == is_authenticated(req.user)

require_POST(req) == req.method = "POST"

----------------------------------------------------------------------------
(* Follow table *)

FollowExists(f, user, author) == CopiesIn(<<user, author>>, f) > 0

(* INSERT under unique_together = ('user', 'author'). *)
FollowInsert(f, user, author) ==
    IF FollowExists(f, user, author)
    THEN [ok |-> FALSE, rows |-> f]
    ELSE [ok |-> TRUE, rows |-> f (+) SetToBag({<<user, author>>})]

FollowCreate(f, user, author) == FollowInsert(f, user, author)

(* Follow.objects.get_or_create(user=..., author=...) *)
FollowGetOrCreate(f, user, author) ==
    IF FollowExists(f, user, author)
    THEN [ok |-> TRUE, rows |-> f]
    ELSE FollowInsert(f, user, author)

FollowDeleteByUser(f, user, author) ==
    [e \in {d \in DOMAIN f : d[1] # user} |-> f[e]]

(* Follow.objects.filter(user=..., author=...).delete() *)
FollowDelete(f, user, author) ==
    [e \in DOMAIN f \ {<<user, author>>} |-> f[e]]

MayFollowAnyone(user, author) == TRUE

(* profile_follow: if request.user != author *)
MayFollow(user, author) == user # author

----------------------------------------------------------------------------
(* Querysets *)

(* Meta.ordering = ['-pub_date']: the rows of S, newest first. *)
RECURSIVE OrderByPubDateDesc(_)
OrderByPubDateDesc(S) ==
    IF S = {} THEN <<>>
    ELSE LET p == CHOOSE r \in S : \A q \in S : q.pub_date <= r.pub_date
         IN  <<p>> \o OrderByPubDateDesc(S \ {p})

RECURSIVE Repeat(_, _)
Repeat(x, n) == IF n <= 0 THEN <<>> ELSE <<x>> \o Repeat(x, n - 1)

RECURSIVE Flatten(_)
Flatten(ss) == IF ss = <<>> THEN <<>> ELSE Head(ss) \o Flatten(Tail(ss))

(* Post.objects.all() *)
AllPosts(P) == OrderByPubDateDesc(P)

(* group.posts.all() *)
GroupPosts(P, slug) == OrderByPubDateDesc({p \in P : p.group = slug})

(* author.posts.all() *)
AuthorPosts(P, author) == OrderByPubDateDesc({p \in P : p.author = author})

FollowerPosts(P, f, user) ==
    LET rows == OrderByPubDateDesc({p \in P : CopiesIn(<<p.author, user>>, f) > 0})
    IN  Flatten([i \in 1..Len(rows) |->
                    Repeat(rows[i], CopiesIn(<<rows[i].author, user>>, f))])

(* Post.objects.filter(author__following__user=user): Post joined to Follow  *)
(* on Follow.author = Post.author, one row per matching Follow row, in the  *)
(* order of Post.Meta.ordering.                                              *)
FollowedPosts(P, f, user) ==
    LET rows == OrderByPubDateDesc({p \in P : CopiesIn(<<user, p.author>>, f) > 0})
    IN  Flatten([i \in 1..Len(rows) |->
                    Repeat(rows[i], CopiesIn(<<user, rows[i].author>>, f))])

(* Paginator(object_list, 10) *)
NumPages(object_list) ==
    IF Len(object_list) = 0 THEN 1
    ELSE (Len(object_list) + PAGE_SIZE - 1) \div PAGE_SIZE

(* paginator.get_page(number): a missing number is page 1, a number out of *)
(* range is the last page.                                                 *)
PageNumber(object_list, page) ==
    IF page = <<>> THEN 1
    ELSE IF page[1] < 1 THEN NumPages(object_list)
    ELSE IF page[1] > NumPages(object_list) THEN NumPages(object_list)
    ELSE page[1]

PageOf(object_list, n) ==
    SubSeq(object_list,
           (n - 1) * PAGE_SIZE + 1,
           IF n * PAGE_SIZE < Len(object_list) THEN n * PAGE_SIZE ELSE Len(object_list))

get_page(object_list, page) == PageOf(object_list, PageNumber(object_list, page))

----------------------------------------------------------------------------
(* Forms *)

(* CharField.to_python with strip=True: leading and trailing blanks go. *)
RECURSIVE LStrip(_)
LStrip(t) == IF t # <<>> /\ Head(t) = " " THEN LStrip(Tail(t)) ELSE t

RECURSIVE RStrip(_)
RStrip(t) ==
    IF t # <<>> /\ t[Len(t)] = " " THEN RStrip(SubSeq(t, 1, Len(t) - 1)) ELSE t

Strip(t) == RStrip(LStrip(t))

Field(data, name) ==
    IF name \in data.fields THEN data[name]
    ELSE IF name = "text" THEN <<>> ELSE ""

TextOptional(text) == FALSE

(* text = models.TextField(): a required form field *)
TextMissing(text) == Strip(text) = <<>>

(* PostForm(data or None, files=files or None, instance=...) with            *)
(* fields = ('group', 'text', 'image'); `image` is the instance's image.     *)
PostForm(data, files, image) ==
    LET bound == data.fields # {} \/ files # NoFile
        text == Field(data, "text")
        group == Field(data, "group")
        errors == (IF TextMissing(text) THEN {"text"} ELSE {})
                  \cup (IF group \notin Group \cup {""} THEN {"group"} ELSE {})
                  \cup (IF files = BadFile THEN {"image"} ELSE {})
    IN  [bound |-> bound,
         errors |-> IF bound THEN errors ELSE {},
         is_valid |-> bound /\ errors = {},
         text |-> Strip(text),
         group |-> IF group = "" THEN NoGroup ELSE group,
         image |-> IF files = GoodImage THEN GoodImage ELSE image]

(* CommentForm(request.POST) with fields = ('text',): always bound. *)
CommentForm(data) ==
    LET text == Field(data, "text")
        errors == IF TextMissing(text) THEN {"text"} ELSE {}
    IN  [bound |-> TRUE,
         errors |-> errors,
         is_valid |-> errors = {},
         text |-> Strip(text)]

----------------------------------------------------------------------------
(* Lookups *)

(* get_object_or_404(User, username=username) *)
UserExists(username) == username \in users

(* get_object_or_404(Group, slug=slug) *)
GroupExists(slug) == slug \in Group

PostsById(P, post_id, username) == {p \in P : p.id = post_id}

(* get_object_or_404(Post, id=post_id, author=author): the matching rows *)
PostsOf(P, post_id, username) ==
    {p \in P : p.id = post_id /\ p.author = username}

AuthorFromForm(req) ==
    IF "author" \in req.data.fields THEN req.data.author ELSE req.user

(* post.author = request.user; comment.author = request.user *)
AuthorOfNew(req) == req.user

AnyoneOwns(user, username) == TRUE

(* post_edit: request.user != author sends the request away *)
IsOwner(user, username) == user = username

----------------------------------------------------------------------------
(* Serving a request *)

NoRequest == Request("", "GET", AnonymousUser, "", 0, "", <<>>, EmptyQueryDict, NoFile)
NoResponse == Response(0, "", NoURL, NoURL, {}, FALSE, <<>>)

NoLast == [req |-> NoRequest, resp |-> NoResponse, rep |-> 1]

(* rep: 2 when a follow or unfollow request repeats the one served just *)
(* before it                                                             *)
Serve(req, resp) ==
    last' = [req |-> req, resp |-> resp,
             rep |-> IF req = last.req
                        /\ req.view \in {"profile_follow", "profile_unfollow"}
                     THEN 2 ELSE 1]

Methods == {"GET", "POST"}

(* Worker threads: each serves one request, one database statement a step. *)
Workers == 1..MaxWorkers
Idle == [view |-> "", user |-> "", username |-> "", at |-> "idle", resp |-> NoResponse]
NoThreads == [t \in Workers |-> Idle]

----------------------------------------------------------------------------
(* Page cache: cache_page(20, key_prefix='index_page') around index.  The   *)
(* key is the request URL, query string included; GET responses with status *)
(* 200 are kept for CACHE_TTL seconds.                                      *)

PageParams == {<<>>, <<2>>}
NoEntry == [set |-> FALSE, at |-> 0, response |-> NoResponse]

CacheFreshInclusive(entry, t) == entry.set /\ t <= entry.at + CACHE_TTL

(* an entry set at second `at` is served while the clock is before at + 20 *)
CacheFresh(entry, t) == entry.set /\ t < entry.at + CACHE_TTL

CacheSet(c, key, t, resp) ==
    [c EXCEPT ![key] = [set |-> TRUE, at |-> t, response |-> resp]]

----------------------------------------------------------------------------
(* Views *)

index(user, method, page) ==
    LET req == Request("index", method, user, "", 0, "", page, EmptyQueryDict, NoFile)
        resp == render("index.html", {}, FALSE, get_page(AllPosts(posts), page))
    IN  /\ IF method = "GET" /\ CacheFresh(cache[page], now)
           THEN /\ Serve(req, cache[page].response)
                /\ UNCHANGED cache
           ELSE /\ Serve(req, resp)
                /\ cache' = IF method = "GET" THEN CacheSet(cache, page, now, resp)
                            ELSE cache
        /\ UNCHANGED <<store, now, threads>>

group_posts(user, slug, page) ==
    LET req == Request("group_posts", "GET", user, "", 0, slug, page, EmptyQueryDict, NoFile)
    IN  /\ IF ~GroupExists(slug)
           THEN Serve(req, Http404)
           ELSE Serve(req, render("group.html", {}, FALSE,
                                  get_page(GroupPosts(posts, slug), page)))
        /\ UNCHANGED <<store, now, cache, threads>>

new_post(user, method, data, files) ==
    LET req == Request("new_post", method, user, "", 0, "", <<>>, data, files)
        form == PostForm(req.data, req.files, NoImage)
    IN  /\ IF ~login_required(req)
           THEN /\ Serve(req, redirect_to_login(req))
                /\ UNCHANGED store
           ELSE IF req.method = "POST" /\ form.is_valid
           THEN /\ posts' = posts \cup
                        {[id |-> post_seq + 1, author |-> AuthorOfNew(req),
                          text |-> form.text, group |-> form.group,
                          image |-> form.image, pub_date |-> clock + 1]}
                /\ post_seq' = post_seq + 1
                /\ clock' = clock + 1
                /\ Serve(req, redirect(URL("index", "", 0)))
                /\ UNCHANGED <<users, follow, comments, comment_seq>>
           ELSE /\ Serve(req, render("posts/new_post.html", form.errors, form.bound, <<>>))
                /\ UNCHANGED store
        /\ UNCHANGED <<now, cache, threads>>

profile(user, username, page) ==
    LET req == Request("profile", "GET", user, username, 0, "", page, EmptyQueryDict, NoFile)
    IN  /\ IF ~UserExists(username)
           THEN Serve(req, Http404)
           ELSE Serve(req, render("profile/profile.html", {}, FALSE,
                                  get_page(AuthorPosts(posts, username), page)))
        /\ UNCHANGED <<store, now, cache, threads>>

post_view(user, username, post_id) ==
    LET req == Request("post", "GET", user, username, post_id, "", <<>>, EmptyQueryDict, NoFile)
        found == PostsOf(posts, post_id, username)
    IN  /\ IF ~UserExists(username) \/ found = {}
           THEN Serve(req, Http404)
           ELSE Serve(req, render("posts/post.html", {}, FALSE,
                                  OrderByPubDateDesc(found)))
        /\ UNCHANGED <<store, now, cache, threads>>

post_edit(user, method, username, post_id, data, files) ==
    LET req == Request("post_edit", method, user, username, post_id, "", <<>>, data, files)
        found == PostsOf(posts, post_id, username)
    IN  /\ IF ~login_required(req)
           THEN /\ Serve(req, redirect_to_login(req))
                /\ UNCHANGED store
           ELSE IF ~UserExists(username)
           THEN /\ Serve(req, Http404)
                /\ UNCHANGED store
           ELSE IF ~IsOwner(user, username)
           THEN /\ Serve(req, redirect(URL("post", username, post_id)))
                /\ UNCHANGED store
           ELSE IF found = {}
           THEN /\ Serve(req, Http404)
                /\ UNCHANGED store
           ELSE LET post == CHOOSE p \in found : TRUE
                    form == PostForm(req.data, req.files, post.image)
                IN  IF form.is_valid
                    THEN /\ posts' = (posts \ {post}) \cup
                                {[post EXCEPT !.text = form.text,
                                              !.group = form.group,
                                              !.image = form.image]}
                         /\ Serve(req, redirect(URL("post", username, post_id)))
                         /\ UNCHANGED <<users, follow, comments, post_seq,
                                        comment_seq, clock>>
                    ELSE /\ Serve(req, render("posts/new_post.html", form.errors,
                                              form.bound, <<post>>))
                         /\ UNCHANGED store
        /\ UNCHANGED <<now, cache, threads>>

add_comment(user, method, username, post_id, data) ==
    LET req == Request("add_comment", method, user, username, post_id, "", <<>>, data, NoFile)
        form == CommentForm(req.data)
        found == PostsOf(posts, post_id, username)
    IN  /\ IF ~login_required(req)
           THEN /\ Serve(req, redirect_to_login(req))
                /\ UNCHANGED store
           ELSE IF ~require_POST(req)
           THEN /\ Serve(req, HttpResponseNotAllowed)
                /\ UNCHANGED store
           ELSE IF found = {}
           THEN /\ Serve(req, Http404)
                /\ UNCHANGED store
           ELSE /\ IF form.is_valid
                   THEN /\ comments' = comments \cup
                              {[id |-> comment_seq + 1,
                                post |-> (CHOOSE p \in found : TRUE).id,
                                author |-> AuthorOfNew(req),
                                text |-> form.text, created |-> clock + 1]}
                        /\ comment_seq' = comment_seq + 1
                        /\ clock' = clock + 1
                   ELSE UNCHANGED <<comments, comment_seq, clock>>
                /\ Serve(req, redirect(URL("post", username, post_id)))
                /\ UNCHANGED <<users, follow, posts, post_seq>>
        /\ UNCHANGED <<now, cache, threads>>

(* the `page` of follow_index's context *)
FollowIndexPage(user, page) == get_page(FollowedPosts(posts, follow, user), page)

follow_index(user, page) ==
    LET req == Request("follow_index", "GET", user, "", 0, "", page, EmptyQueryDict, NoFile)
    IN  /\ IF ~login_required(req)
           THEN Serve(req, redirect_to_login(req))
           ELSE Serve(req, render("posts/follow.html", {}, FALSE,
                                  FollowIndexPage(user, page)))
        /\ UNCHANGED <<store, now, cache, threads>>

profile_follow(user, username) ==
    LET req == Request("profile_follow", "GET", user, username, 0, "", <<>>, EmptyQueryDict, NoFile)
        got == FollowGetOrCreate(follow, user, username)
    IN  /\ IF ~login_required(req)
           THEN /\ Serve(req, redirect_to_login(req))
                /\ UNCHANGED follow
           ELSE IF ~UserExists(username)
           THEN /\ Serve(req, Http404)
                /\ UNCHANGED follow
           ELSE IF ~MayFollow(user, username)
           THEN /\ Serve(req, redirect(URL("profile", username, 0)))
                /\ UNCHANGED follow
           ELSE IF got.ok
           THEN /\ follow' = got.rows
                /\ Serve(req, redirect(URL("profile", username, 0)))
           ELSE \* IntegrityError, unhandled: handler500
                /\ Serve(req, server_error)
                /\ UNCHANGED follow
        /\ UNCHANGED <<users, posts, comments, post_seq, comment_seq, clock, now, cache, threads>>

profile_unfollow(user, username) ==
    LET req == Request("profile_unfollow", "GET", user, username, 0, "", <<>>, EmptyQueryDict, NoFile)
    IN  /\ IF ~login_required(req)
           THEN /\ Serve(req, redirect_to_login(req))
                /\ UNCHANGED follow
           ELSE IF ~UserExists(username)
           THEN /\ Serve(req, Http404)
                /\ UNCHANGED follow
           ELSE /\ follow' = FollowDelete(follow, user, username)
                /\ Serve(req, redirect(URL("profile", username, 0)))
        /\ UNCHANGED <<users, posts, comments, post_seq, comment_seq, clock, now, cache, threads>>

(* The wall clock moves on by d seconds. *)
Tick(d) ==
    /\ now + d <= MaxTime
    /\ now' = now + d
    /\ last' = NoLast
    /\ UNCHANGED <<store, cache, threads>>

(* cache.clear(), as the tests call it *)
cache_clear ==
    /\ cache' = [k \in DOMAIN cache |-> NoEntry]
    /\ last' = NoLast
    /\ UNCHANGED <<store, now, threads>>

----------------------------------------------------------------------------
(* Deleting a user: User.delete() follows every ForeignKey declared with   *)
(* on_delete=models.CASCADE and deletes the rows it reaches with the user.  *)

(* Post.author: the posts that go with user X *)
PostCascade(P, X) == {p \in P : p.author = X}

CommentCascadeAuthorOnly(C, P, X) == {c \in C : c.author = X}

(* Comment.author and Comment.post: the comments that go with user X, his  *)
(* own and those on the posts that go with him                              *)
CommentCascade(C, P, X) ==
    {c \in C : c.author = X \/ c.post \in {p.id : p \in PostCascade(P, X)}}

(* Follow.user and Follow.author: the rows left when user X goes *)
FollowCascade(f, X) ==
    [e \in {d \in DOMAIN f : d[1] # X /\ d[2] # X} |-> f[e]]

(* X.delete(), from the admin site or the shell *)
user_delete(X) ==
    /\ X \in users
    /\ users' = users \ {X}
    /\ posts' = posts \ PostCascade(posts, X)
    /\ comments' = comments \ CommentCascade(comments, posts, X)
    /\ follow' = FollowCascade(follow, X)
    /\ last' = NoLast
    /\ UNCHANGED <<post_seq, comment_seq, clock, now, cache, threads>>

----------------------------------------------------------------------------
(* profile_follow and profile_unfollow served by worker threads side by    *)
(* side.  The views take no lock and open no transaction, so the Follow     *)
(* table may change between one statement of a request and the next:        *)
(* get_or_create is a SELECT, then an INSERT when no row was found, then a  *)
(* SELECT again when the INSERT broke the unique constraint; filter(...)    *)
(* .delete() is one DELETE.                                                 *)

At(t, view, at) == threads[t].view = view /\ threads[t].at = at

Goto(t, at) ==
    /\ threads' = [threads EXCEPT ![t].at = at]
    /\ UNCHANGED last

ThreadRequest(t) ==
    Request(threads[t].view, "GET", threads[t].user, threads[t].username, 0, "",
            <<>>, EmptyQueryDict, NoFile)

(* the thread answers its request *)
Respond(t, resp) ==
    /\ threads' = [threads EXCEPT ![t].at = "done", ![t].resp = resp]
    /\ Serve(ThreadRequest(t), resp)

(* get_or_create after IntegrityError: self.get finds the row,   *)
(* or the IntegrityError is raised again                                    *)
FoundAfterIntegrityError(f, user, author) == FollowExists(f, user, author)

(* a worker takes a profile_follow request: login_required, the author     *)
(* lookup and the test request.user != author                               *)
profile_follow_begin(t, user, username) ==
    LET req == Request("profile_follow", "GET", user, username, 0, "", <<>>,
                       EmptyQueryDict, NoFile)
        took == [threads EXCEPT ![t] = [view |-> "profile_follow", user |-> user,
                                        username |-> username, at |-> "get",
                                        resp |-> NoResponse]]
        answer(resp) ==
            /\ threads' = [took EXCEPT ![t].at = "done", ![t].resp = resp]
            /\ Serve(req, resp)
    IN  /\ threads[t] = Idle
        /\ IF ~login_required(req) THEN answer(redirect_to_login(req))
           ELSE IF ~UserExists(username) THEN answer(Http404)
           ELSE IF ~MayFollow(user, username)
           THEN answer(redirect(URL("profile", username, 0)))
           ELSE threads' = took /\ UNCHANGED last
        /\ UNCHANGED <<store, now, cache>>

(* get_or_create: self.get *)
get_or_create_get(t) ==
    /\ At(t, "profile_follow", "get")
    /\ IF FollowExists(follow, threads[t].user, threads[t].username)
       THEN Respond(t, redirect(URL("profile", threads[t].username, 0)))
       ELSE Goto(t, "create")
    /\ UNCHANGED <<store, now, cache>>

(* get_or_create: self.create *)
get_or_create_create(t) ==
    LET put == FollowInsert(follow, threads[t].user, threads[t].username)
    IN  /\ At(t, "profile_follow", "create")
        /\ IF put.ok
           THEN /\ follow' = put.rows
                /\ Respond(t, redirect(URL("profile", threads[t].username, 0)))
           ELSE /\ Goto(t, "get_again")
                /\ UNCHANGED follow
        /\ UNCHANGED <<users, posts, comments, post_seq, comment_seq, clock, now, cache>>

(* get_or_create: except IntegrityError *)
get_or_create_except(t) ==
    /\ At(t, "profile_follow", "get_again")
    /\ IF FoundAfterIntegrityError(follow, threads[t].user, threads[t].username)
       THEN Respond(t, redirect(URL("profile", threads[t].username, 0)))
       ELSE \* IntegrityError, unhandled: handler500
            Respond(t, server_error)
    /\ UNCHANGED <<store, now, cache>>

(* a worker takes a profile_unfollow request: login_required and the       *)
(* author lookup                                                            *)
profile_unfollow_begin(t, user, username) ==
    LET req == Request("profile_unfollow", "GET", user, username, 0, "", <<>>,
                       EmptyQueryDict, NoFile)
        took == [threads EXCEPT ![t] = [view |-> "profile_unfollow", user |-> user,
                                        username |-> username, at |-> "delete",
                                        resp |-> NoResponse]]
        answer(resp) ==
            /\ threads' = [took EXCEPT ![t].at = "done", ![t].resp = resp]
            /\ Serve(req, resp)
    IN  /\ threads[t] = Idle
        /\ IF ~login_required(req) THEN answer(redirect_to_login(req))
           ELSE IF ~UserExists(username) THEN answer(Http404)
           ELSE threads' = took /\ UNCHANGED last
        /\ UNCHANGED <<store, now, cache>>

(* Follow.objects.filter(user=request.user, author=author).delete() *)
profile_unfollow_delete(t) ==
    /\ At(t, "profile_unfollow", "delete")
    /\ follow' = FollowDelete(follow, threads[t].user, threads[t].username)
    /\ Respond(t, redirect(URL("profile", threads[t].username, 0)))
    /\ UNCHANGED <<users, posts, comments, post_seq, comment_seq, clock, now, cache>>

----------------------------------------------------------------------------
(* Specifications *)

Post(id, author, text, group, image, pub_date) ==
    [id |-> id, author |-> author, text |-> text, group |-> group,
     image |-> image, pub_date |-> pub_date]

(* The follow graph and the follow feed: three users, of whom u2 has       *)
(* published BasePosts posts, follow, unfollow, publish and read feeds.     *)
InitFollow ==
    /\ users = Names
    /\ follow = EmptyBag
    /\ posts = {Post(i, "u2", <<"a">>, NoGroup, NoImage, i) : i \in 1..BasePosts}
    /\ post_seq = BasePosts
    /\ clock = BasePosts
    /\ comments = {}
    /\ comment_seq = 0
    /\ now = 0
    /\ cache = [k \in PageParams |-> NoEntry]
    /\ last = NoLast
    /\ threads = NoThreads

FeedPages == {<<>>, <<2>>, <<3>>}

NextFollow ==
    \/ \E user \in users, username \in Names : profile_follow(user, username)
    \/ \E user \in users, username \in Names : profile_unfollow(user, username)
    \/ \E user \in users, page \in FeedPages : follow_index(user, page)
    \/ \E user \in users :
          /\ post_seq < BasePosts + MaxNewPosts
          /\ new_post(user, "POST", QueryDict({"text"}, <<"a">>, "", ""), NoFile)

SpecFollow == InitFollow /\ [][NextFollow]_vars

(* Content and access: u1 and u2 have accounts, u3 is a username nobody   *)
(* has; u1, u2 and a client not logged in send requests.                    *)
Init ==
    /\ users = {"u1", "u2"}
    /\ follow = EmptyBag
    /\ posts = {}
    /\ post_seq = 0
    /\ clock = 0
    /\ comments = {}
    /\ comment_seq = 0
    /\ now = 0
    /\ cache = [k \in PageParams |-> NoEntry]
    /\ last = NoLast
    /\ threads = NoThreads

PostIds == 1..(MaxPosts + 1)

ValidA == <<QueryDict({"text", "group", "author"}, <<"a">>, "", "u2"), NoFile>>
ValidB == <<QueryDict({"text", "group"}, <<"b", " ">>, "g1", ""), GoodImage>>
PostSubmissions ==
    {ValidA, ValidB,
     <<QueryDict({"text", "group"}, <<>>, "g1", ""), NoFile>>,
     <<QueryDict({"text", "group"}, <<" ">>, "", ""), GoodImage>>,
     <<QueryDict({"text", "group"}, <<"b">>, "", ""), BadFile>>,
     <<QueryDict({"text", "group"}, <<"a">>, "gx", ""), NoFile>>,
     <<EmptyQueryDict, NoFile>>}
PostRequests ==
    {<<"GET", EmptyQueryDict, NoFile>>} \cup {<<"POST", s[1], s[2]>> : s \in PostSubmissions}

CommentSubmissions ==
    {QueryDict({"text", "author"}, <<"a">>, "", "u2"),
     QueryDict({"text"}, <<" ">>, "", ""),
     QueryDict({"text"}, <<>>, "", ""),
     EmptyQueryDict}
CommentRequests ==
    {<<"GET", EmptyQueryDict>>} \cup {<<"POST", d>> : d \in CommentSubmissions}

Next ==
    \/ \E r \in PostRequests :
          post_seq < MaxPosts /\ new_post("u1", r[1], r[2], r[3])
    \/ post_seq < MaxPosts /\ new_post("u2", "POST", ValidA[1], ValidA[2])
    \/ \E username \in Names, post_id \in PostIds, r \in PostRequests :
          post_edit("u1", r[1], username, post_id, r[2], r[3])
    \/ \E username \in Names, post_id \in PostIds, r \in CommentRequests :
          comment_seq < MaxComments /\ add_comment("u1", r[1], username, post_id, r[2])
    \/ \E username \in Names, post_id \in PostIds : post_view("u1", username, post_id)
    \/ \E username \in Names : profile("u1", username, <<>>)
    \/ \E slug \in Slugs : group_posts("u1", slug, <<>>)
    \/ \E username \in Names : profile_follow("u1", username)
    \/ \E username \in Names : profile_unfollow("u1", username)
    \/ follow_index("u1", <<>>)
    \* a client that is not logged in
    \/ \E method \in Methods :
          new_post(AnonymousUser, method, ValidA[1], ValidA[2])
    \/ \E method \in Methods, username \in Names, post_id \in PostIds :
          post_edit(AnonymousUser, method, username, post_id, ValidB[1], ValidB[2])
    \/ \E method \in Methods, username \in Names, post_id \in PostIds :
          add_comment(AnonymousUser, method, username, post_id, ValidA[1])
    \/ \E username \in Names : profile_follow(AnonymousUser, username)
    \/ \E username \in Names : profile_unfollow(AnonymousUser, username)
    \/ follow_index(AnonymousUser, <<>>)

Spec == Init /\ [][Next]_vars

(* The page cache: u1 publishes, edits, comments, follows and reads the    *)
(* index page while the clock runs.                                         *)
InitCache == Init

TickSteps == {CACHE_TTL - 1, CACHE_TTL}
ValidComment == QueryDict({"text"}, <<"a">>, "", "")

NextCache ==
    \/ \E method \in Methods, page \in PageParams : index("u1", method, page)
    \/ post_seq < MaxCachePosts /\ new_post("u1", "POST", ValidA[1], ValidA[2])
    \/ post_edit("u1", "POST", "u1", 1, ValidB[1], ValidB[2])
    \/ comment_seq < MaxComments /\ add_comment("u1", "POST", "u1", 1, ValidComment)
    \/ profile_follow("u1", "u2")
    \/ profile_unfollow("u1", "u2")
    \/ \E d \in TickSteps : Tick(d)
    \/ cache_clear

SpecCache == InitCache /\ [][NextCache]_vars

(* Deleting users: u2 and u3 have a post each and u1 has commented on the  *)
(* post of u2; the users publish, comment, follow, read their feeds and    *)
(* are deleted.  A request comes from a user who still has a row: the      *)
(* session of a deleted user is the session of a client not logged in.     *)
InitDelete ==
    /\ users = Names
    /\ follow = EmptyBag
    /\ posts = {Post(1, "u2", <<"a">>, NoGroup, NoImage, 1),
                Post(2, "u3", <<"a">>, NoGroup, NoImage, 2)}
    /\ post_seq = 2
    /\ comments = {[id |-> 1, post |-> 1, author |-> "u1", text |-> <<"a">>,
                    created |-> 3]}
    /\ comment_seq = 1
    /\ clock = 3
    /\ now = 0
    /\ cache = [k \in PageParams |-> NoEntry]
    /\ last = NoLast
    /\ threads = NoThreads

NextDelete ==
    \/ \E user \in users :
          clock < 3 + MaxDelRows /\ new_post(user, "POST", ValidA[1], ValidA[2])
    \* a comment under a post that some page shows
    \/ \E user \in users, p \in posts :
          /\ clock < 3 + MaxDelRows
          /\ add_comment(user, "POST", p.author, p.id, ValidComment)
    \/ \E user \in users, username \in Names :
          profile_follow(user, username)
    \/ \E user \in users : follow_index(user, <<>>)
    \/ \E X \in users : user_delete(X)

SpecDelete == InitDelete /\ [][NextDelete]_vars

(* Follow and unfollow requests of u1 and u2 in flight together, from a    *)
(* Follow table that is empty or has the row of u1 following u2.            *)
InitRace ==
    /\ users = {"u1", "u2"}
    /\ follow \in {EmptyBag, SetToBag({<<"u1", "u2">>})}
    /\ posts = {}
    /\ post_seq = 0
    /\ clock = 0
    /\ comments = {}
    /\ comment_seq = 0
    /\ now = 0
    /\ cache = [k \in PageParams |-> NoEntry]
    /\ last = NoLast
    /\ threads = NoThreads

NextRace ==
    \/ \E t \in Workers, user \in users, username \in Names :
          profile_follow_begin(t, user, username)
    \/ \E t \in Workers : get_or_create_get(t)
    \/ \E t \in Workers : get_or_create_create(t)
    \/ \E t \in Workers : get_or_create_except(t)
    \/ \E t \in Workers, user \in users, username \in Names :
          profile_unfollow_begin(t, user, username)
    \/ \E t \in Workers : profile_unfollow_delete(t)

SpecRace == InitRace /\ [][NextRace]_vars

----------------------------------------------------------------------------
(* The page cache *)

IsIndexGet(l) == l.req.view = "index" /\ l.req.method = "GET"
IsWrite(l) ==
    l.req.view \in {"new_post", "post_edit", "add_comment",
                    "profile_follow", "profile_unfollow"}
Shown(p, items) == Cardinality({i \in 1..Len(items) : items[i] = p})
Stale(l) == \E p \in posts : Shown(p, l.resp.items) = 0

C5_Step ==
    /\ IsIndexGet(last') =>
          LET entry == cache[last'.req.page]
          IN  IF entry.set /\ now < entry.at + 20
              THEN /\ last'.resp = entry.response
                   /\ cache' = cache
              ELSE /\ last'.resp.status = 200
                   /\ \A p \in posts : Shown(p, last'.resp.items) = 1
                   /\ Len(last'.resp.items) = Cardinality(posts)
                   /\ \A i, j \in 1..Len(last'.resp.items) :
                         i < j => last'.resp.items[i].pub_date
                                     > last'.resp.items[j].pub_date
                   /\ cache' = [cache EXCEPT ![last'.req.page] =
                                   [set |-> TRUE, at |-> now, response |-> last'.resp]]
    /\ IsWrite(last') => cache' = cache
    /\ cache' # cache => IsIndexGet(last') \/ last' = NoLast

(* C5: a GET of the index page whose URL was cached less than 20 seconds   *)
(* ago is answered with the cached response, whatever was published or     *)
(* edited since, and leaves the cache as it is; any other GET is answered  *)
(* with the posts of the store, newest first, and cached at the current    *)
(* second; no writing view changes the cache.                               *)
C5_CachedIndex == [][C5_Step]_vars
C5_Witness ==
    /\ IsIndexGet(last)
    /\ Stale(last)
    /\ cache[last.req.page].set
    /\ now = cache[last.req.page].at + 19

----------------------------------------------------------------------------
(* The follow graph *)

Edges == BagToSet(follow)
IsFollowRequest(l) ==
    /\ l.req.view = "profile_follow"
    /\ is_authenticated(l.req.user)
    /\ l.req.username \in users
IsUnfollowRequest(l) ==
    /\ l.req.view = "profile_unfollow"
    /\ is_authenticated(l.req.user)
    /\ l.req.username \in users

C1_FollowOnce ==
    (IsFollowRequest(last) /\ last.req.user # last.req.username) =>
        /\ CopiesIn(<<last.req.user, last.req.username>>, follow) = 1
        /\ last.resp = redirect(URL("profile", last.req.username, 0))
C1_FollowAgain ==
    (IsFollowRequest(last') /\ last'.req.user # last'.req.username /\ last'.rep = 2) =>
        /\ store' = store
        /\ last'.resp = last.resp

(* C1: after profile_follow by A for another user B the table holds exactly *)
(* one row (A, B) and the answer is the redirect to B's profile; a request  *)
(* that repeats it changes nothing and gets the same answer.                *)
C1_FollowIdempotent == []C1_FollowOnce /\ [][C1_FollowAgain]_vars
C1_Witness ==
    /\ IsFollowRequest(last)
    /\ last.req.user # last.req.username
    /\ last.rep = 2
    /\ last.resp.status = 302
    /\ CopiesIn(<<last.req.user, last.req.username>>, follow) = 1

C2_NoSelfEdge == \A e \in Edges : e[1] # e[2]
C2_SelfFollowAnswer ==
    (IsFollowRequest(last) /\ last.req.user = last.req.username) =>
        last.resp = redirect(URL("profile", last.req.username, 0))
C2_SelfFollowStep ==
    (IsFollowRequest(last') /\ last'.req.user = last'.req.username) =>
        store' = store

(* C2: no row of the Follow table has user = author; profile_follow for    *)
(* one's own username leaves the table as it was and answers with the      *)
(* redirect to the profile.                                                 *)
C2_NoSelfFollow ==
    [](C2_NoSelfEdge /\ C2_SelfFollowAnswer) /\ [][C2_SelfFollowStep]_vars
C2_Witness ==
    /\ IsFollowRequest(last)
    /\ last.req.user = last.req.username
    /\ last.resp.status = 302
    /\ Edges # {}

C3_UnfollowAnswer ==
    IsUnfollowRequest(last) =>
        /\ CopiesIn(<<last.req.user, last.req.username>>, follow) = 0
        /\ last.resp = redirect(URL("profile", last.req.username, 0))
C3_UnfollowStep ==
    IsUnfollowRequest(last') =>
        /\ \A e \in (Names \X Names) \ {<<last'.req.user, last'.req.username>>} :
              CopiesIn(e, follow') = CopiesIn(e, follow)
        /\ <<users, posts, comments, post_seq, comment_seq, clock>>'
              = <<users, posts, comments, post_seq, comment_seq, clock>>
        /\ CopiesIn(<<last'.req.user, last'.req.username>>, follow) = 0
              => store' = store

(* C3: profile_unfollow by U for A leaves no row (U, A), answers with the  *)
(* redirect to A's profile, and changes no other row; with no row (U, A)   *)
(* before, it changes nothing.                                              *)
C3_UnfollowFrame == []C3_UnfollowAnswer /\ [][C3_UnfollowStep]_vars
C3_Witness ==
    /\ IsUnfollowRequest(last)
    /\ <<last.req.username, last.req.user>> \in Edges
    /\ \E e \in Edges : e[1] = last.req.user
    /\ last.resp.status = 302

----------------------------------------------------------------------------
(* The follow feed *)

Count(x, seq) == Cardinality({i \in 1..Len(seq) : seq[i] = x})

(* all pages of U's follow feed, first to last, one after the other *)
WholeFeed(U) ==
    LET n == NumPages(FollowedPosts(posts, follow, U))
    IN  Flatten([k \in 1..n |-> FollowIndexPage(U, <<k>>)])

(* C4: the pages of U's follow feed together list each post of an author   *)
(* U follows exactly once and no other post, newest first; a request is    *)
(* answered with its page of that list, an empty one when U follows nobody. *)
C4_FollowFeed ==
    /\ \A U \in users :
          LET feed == WholeFeed(U)
          IN  /\ \A i \in 1..Len(feed) : feed[i] \in posts
              /\ \A p \in posts :
                    Count(p, feed) = IF <<U, p.author>> \in Edges THEN 1 ELSE 0
              /\ \A i, j \in 1..Len(feed) :
                    i < j => feed[i].pub_date > feed[j].pub_date
    /\ (last.req.view = "follow_index" /\ is_authenticated(last.req.user)) =>
          /\ last.resp.status = 200
          /\ \A i \in 1..Len(last.resp.items) :
                <<last.req.user, last.resp.items[i].author>> \in Edges
          /\ LET feed == WholeFeed(last.req.user)
                 items == last.resp.items
             IN  /\ \E k \in 0..Len(feed) : items = SubSeq(feed, k + 1, k + Len(items))
                 /\ feed # <<>> => items # <<>>
                 /\ last.req.page = <<>> => items = SubSeq(feed, 1, Len(items))
C4_Witness ==
    /\ last.req.view = "follow_index"
    /\ last.req.page = <<2>>
    /\ Len(WholeFeed(last.req.user)) > PAGE_SIZE
    /\ Len(last.resp.items) = Len(WholeFeed(last.req.user)) - PAGE_SIZE
    /\ \E p \in posts : p.author # last.req.user /\ <<last.req.user, p.author>> \notin Edges

----------------------------------------------------------------------------
(* Access *)

Protected ==
    {"new_post", "post_edit", "add_comment", "follow_index",
     "profile_follow", "profile_unfollow"}

IsAnonymousRequest(l) ==
    l.req.view \in Protected /\ l.req.user = AnonymousUser

C6_LoginRedirect ==
    IsAnonymousRequest(last) =>
        /\ last.resp.status = 302
        /\ last.resp.location = URL("login", "", 0)
        /\ last.resp.next = URL(last.req.view, last.req.username, last.req.post_id)
C6_NoWrite == IsAnonymousRequest(last') => store' = store

(* C6: a request to a login-protected view by a client that is not logged  *)
(* in is answered with the redirect to the login page, `next` being the    *)
(* path asked for, and writes nothing.                                      *)
C6_AnonymousRejected == []C6_LoginRedirect /\ [][C6_NoWrite]_vars
C6_Witness ==
    /\ last.req.user = AnonymousUser
    /\ last.req.view = "add_comment"
    /\ last.req.method = "POST"
    /\ \E p \in posts : p.id = last.req.post_id /\ p.author = last.req.username
    /\ last.resp.next = URL("add_comment", last.req.username, last.req.post_id)
    /\ comments = {}

(* what a submission is, read off the request alone *)
BlankText(req) ==
    /\ "text" \in req.data.fields
    /\ \A i \in 1..Len(req.data.text) : req.data.text[i] = " "
GoodPost(req) ==
    /\ "text" \in req.data.fields
    /\ \E i \in 1..Len(req.data.text) : req.data.text[i] # " "
    /\ ("group" \in req.data.fields => req.data.group \in Group \cup {""})
    /\ req.files # BadFile

C7_NotTheAuthor(l, P) ==
    /\ l.req.view = "post_edit"
    /\ is_authenticated(l.req.user)
    /\ \E p \in P : /\ p.id = l.req.post_id
                    /\ p.author = l.req.username
                    /\ p.author # l.req.user
C7_Answer ==
    C7_NotTheAuthor(last, posts) =>
        last.resp = redirect(URL("post", last.req.username, last.req.post_id))
C7_Step ==
    /\ C7_NotTheAuthor(last', posts) => posts' = posts
    /\ \A p \in posts :
          p \notin posts' =>
              /\ last'.req.view = "post_edit"
              /\ last'.req.method = "POST"
              /\ last'.req.user = p.author
              /\ last'.req.username = p.author
              /\ last'.req.post_id = p.id
              /\ GoodPost(last'.req)

(* C7: post_edit by a logged-in user other than the post's author, on the  *)
(* post's edit URL, is answered with the redirect to the post's page; a    *)
(* post row changes only in a POST to post_edit by its author that carries *)
(* a valid form.                                                            *)
C7_OnlyAuthorEdits == []C7_Answer /\ [][C7_Step]_vars
C7_Witness ==
    /\ C7_NotTheAuthor(last, posts)
    /\ last.req.method = "POST"
    /\ GoodPost(last.req)
    /\ last.resp.status = 302

----------------------------------------------------------------------------
(* Not found *)

NamesUnknown(req, U, P) ==
    \/ req.view = "group_posts" /\ req.slug \notin Group
    \/ /\ req.view \in {"profile", "profile_follow", "profile_unfollow"}
       /\ req.username \notin U
    \/ /\ req.view \in {"post", "post_edit", "add_comment"}
       /\ \/ req.username \notin U
          \/ ~ \E p \in P : p.id = req.post_id /\ p.author = req.username

C8_Always404 ==
    (is_authenticated(last.req.user) /\ NamesUnknown(last.req, users, posts)) =>
        last.resp.status = 404

C8_Answer ==
    (is_authenticated(last.req.user) /\ NamesUnknown(last.req, users, posts)) =>
        IF /\ last.req.view = "post_edit"
           /\ last.req.username \in users
           /\ last.req.username # last.req.user
        THEN last.resp = redirect(URL("post", last.req.username, last.req.post_id))
        ELSE IF last.req.view = "add_comment" /\ last.req.method # "POST"
        THEN last.resp.status = 405
        ELSE last.resp.status = 404
C8_Step ==
    (is_authenticated(last'.req.user) /\ NamesUnknown(last'.req, users', posts')) =>
        store' = store

(* C8 as first stated: every request by a logged-in user whose path names  *)
(* an unknown username, post or group is answered with 404 and writes      *)
(* nothing.                                                                 *)
C8_Original == []C8_Always404 /\ [][C8_Step]_vars

(* C8: a request by a logged-in user whose path names an unknown username, *)
(* post or group writes nothing and is answered with 404, except that      *)
(* post_edit for another existing user's username is answered with the     *)
(* redirect to the post's page, and add_comment by a method other than     *)
(* POST with 405.                                                           *)
C8_NotFound == []C8_Answer /\ [][C8_Step]_vars
C8_Witness ==
    /\ last.req.view = "post"
    /\ is_authenticated(last.req.user)
    /\ last.req.username \in users
    /\ \E p \in posts : p.id = last.req.post_id /\ p.author # last.req.username
    /\ last.resp.status = 404

----------------------------------------------------------------------------
(* Forms *)

(* a POST by a logged-in user that reaches the form of the view *)
ReachesPostForm(l, P) ==
    /\ is_authenticated(l.req.user)
    /\ l.req.method = "POST"
    /\ \/ l.req.view = "new_post"
       \/ /\ l.req.view = "post_edit"
          /\ l.req.user = l.req.username
          /\ \E p \in P : p.id = l.req.post_id /\ p.author = l.req.username
ReachesCommentForm(l, P) ==
    /\ is_authenticated(l.req.user)
    /\ l.req.method = "POST"
    /\ l.req.view = "add_comment"
    /\ \E p \in P : p.id = l.req.post_id /\ p.author = l.req.username
InvalidPost(l) == BlankText(l.req) \/ l.req.files = BadFile
FormShownAgain(l) == l.resp.status = 200 /\ l.resp.errors # {}

C9_AlwaysFormAgain ==
    /\ (ReachesPostForm(last, posts) /\ InvalidPost(last)) => FormShownAgain(last)
    /\ (ReachesCommentForm(last, posts) /\ BlankText(last.req)) => FormShownAgain(last)

C9_Answer ==
    /\ (ReachesPostForm(last, posts) /\ InvalidPost(last)) => FormShownAgain(last)
    /\ (ReachesCommentForm(last, posts) /\ BlankText(last.req)) =>
          last.resp = redirect(URL("post", last.req.username, last.req.post_id))
C9_Step ==
    /\ (ReachesPostForm(last', posts) /\ InvalidPost(last')) => store' = store
    /\ (ReachesCommentForm(last', posts) /\ BlankText(last'.req)) => store' = store

(* C9 as first stated: a post or an edit with empty text or a bad image,   *)
(* and a comment with empty text, get the form again with its errors,      *)
(* status 200, and write no row.                                            *)
C9_Original == []C9_AlwaysFormAgain /\ [][C9_Step]_vars

(* C9: a post or an edit with empty text or a bad image gets the form      *)
(* again with its errors, status 200; a comment with empty text gets the   *)
(* redirect to the post's page; none of them writes a row.                  *)
C9_InvalidForms == []C9_Answer /\ [][C9_Step]_vars
C9_Witness ==
    /\ ReachesCommentForm(last, posts)
    /\ BlankText(last.req)
    /\ last.resp.status = 302
    /\ comments = {}

----------------------------------------------------------------------------
(* Authors *)

Ids(rows) == {r.id : r \in rows}

C10_Step ==
    /\ \A p \in posts' :
          p.id \notin Ids(posts) =>
              last'.req.view = "new_post" /\ p.author = last'.req.user
    /\ \A c \in comments' :
          c.id \notin Ids(comments) =>
              last'.req.view = "add_comment" /\ c.author = last'.req.user
    /\ \A p \in posts :
          \E q \in posts' :
              q.id = p.id /\ q.author = p.author /\ q.pub_date = p.pub_date
    /\ \A c \in comments : c \in comments'

(* C10: a new post or comment has the requesting user as its author,       *)
(* whatever `author` the form carries; a row keeps its author, and a post  *)
(* its pub_date, ever after.                                                *)
C10_AuthorFixed == [][C10_Step]_vars
C10_Witness ==
    /\ last.req.view = "new_post"
    /\ "author" \in last.req.data.fields
    /\ last.req.data.author # last.req.user
    /\ \E p \in posts : p.id = post_seq /\ p.author = last.req.user

----------------------------------------------------------------------------
(* Deleting a user *)

PostIdsOf(P, X) == {p.id : p \in {q \in P : q.author = X}}

C11_Integrity ==
    /\ \A p \in posts : p.author \in users
    /\ \A c \in comments : c.author \in users /\ c.post \in Ids(posts)
    /\ \A e \in BagToSet(follow) : e[1] \in users /\ e[2] \in users
    /\ \A u \in users :
          LET feed == FollowedPosts(posts, follow, u)
          IN  \A i \in 1..Len(feed) : feed[i].author \in users
    /\ (last.req.view = "follow_index" /\ last.resp.status = 200) =>
          \A i \in 1..Len(last.resp.items) : last.resp.items[i].author \in users

C11_Step ==
    users' # users =>
        \E X \in users :
            /\ users' = users \ {X}
            /\ posts' = {p \in posts : p.author # X}
            /\ comments' = {c \in comments :
                               c.author # X /\ c.post \notin PostIdsOf(posts, X)}
            /\ \A a, b \in Names :
                  CopiesIn(<<a, b>>, follow') =
                      IF a = X \/ b = X THEN 0 ELSE CopiesIn(<<a, b>>, follow)
            /\ post_seq' = post_seq /\ comment_seq' = comment_seq

(* C11: deleting user X removes the posts of X, the comments of X, the     *)
(* comments on the posts of X and the Follow rows with X on either side,    *)
(* and no other row; so every post, comment and Follow row names users      *)
(* that exist, every comment a post that exists, and no feed shows a post   *)
(* of a deleted user.                                                       *)
C11_DeleteCascades == []C11_Integrity /\ [][C11_Step]_vars
C11_Witness ==
    /\ users # Names
    /\ last = NoLast
    /\ posts # {} /\ Cardinality(posts) < post_seq
    /\ comments # {} /\ Cardinality(comments) < comment_seq
    /\ follow # EmptyBag

----------------------------------------------------------------------------
(* Follow and unfollow requests in flight together *)

Done(t) == threads[t].at = "done"
Quiet == \A t \in Workers : threads[t].at \in {"idle", "done"}
Taken(view, a, b) ==
    {t \in Workers : /\ threads[t].view = view
                     /\ threads[t].user = a
                     /\ threads[t].username = b}

(* no pair has two Follow rows *)
C12_NoDuplicate ==
    \A a, b \in Names : CopiesIn(<<a, b>>, follow) <= 1

(* when two or more follow requests of a for b, and no unfollow request of *)
(* a for b, have all been answered, a follows b by exactly one row          *)
C12_OneEdge ==
    \A a, b \in users :
        (/\ a # b
         /\ Quiet
         /\ Cardinality(Taken("profile_follow", a, b)) >= 2
         /\ Taken("profile_unfollow", a, b) = {})
        => CopiesIn(<<a, b>>, follow) = 1

(* a follow or unfollow request that names a user is answered with the     *)
(* redirect to that user's profile                                          *)
C12_NoneFails ==
    \A t \in Workers :
        (Done(t) /\ threads[t].username \in users)
        => threads[t].resp = redirect(URL("profile", threads[t].username, 0))

(* C12: whatever the interleaving of follow and unfollow requests in       *)
(* flight together, no pair gets two Follow rows, two or more follow        *)
(* requests of a for b end with exactly one row, and every request is       *)
(* answered with the redirect: none fails with an integrity error.          *)
C12_Original == C12_NoDuplicate /\ C12_OneEdge /\ C12_NoneFails

====
